---- MODULE Spec2Model ----
(***************************************************************************)
(* Model of first_word (src/src/main.rs, lines 226-248): a single forward  *)
(* scan over the bytes of a string slice that returns a sub-slice.        *)
(*                                                                         *)
(* A text is a sequence of byte values.  A view is a pair of byte offsets  *)
(* lo..hi into the text the function was called with.  Positions in the   *)
(* source are 0-based; the sequence `string` is 1-based, so the byte at   *)
(* source index i is string[i + 1].                                        *)
(***************************************************************************)
EXTENDS Integers, Sequences, FiniteSets, TLC

\* ---------------------------------------------------------------- bounds
MaxLen == 4
MaxCalls == 2

\* ------------------------------------------------------------ byte values
\* b' ' of lines 236 and 242
SP == 32

\* The byte values texts are built from: tab, newline, space, the letter
\* 'a', and the two bytes 0xC3 0xA9 of the two-byte character U+00E9.
Bytes == {9, 10, 32, 97, 195, 169}

\* Whitespace other than the space byte (tab, newline).
OtherWhitespace == {9, 10}

\* UTF-8 byte classes of the alphabet above.
IsContinuation(b) == b >= 128 /\ b < 192
IsLead(b) == b >= 192

\* A &str is always valid UTF-8: here, every lead byte is followed by one
\* continuation byte and every continuation byte follows a lead byte.
IsValidStr(s) ==
    \A k \in 1..Len(s) :
        /\ IsLead(s[k]) => (k < Len(s) /\ IsContinuation(s[k + 1]))
        /\ IsContinuation(s[k]) => (k > 1 /\ IsLead(s[k - 1]))

\* All sequences over S of length n / of length at most n.
SeqsOfLen(S, n) == [1..n -> S]
Texts == { s \in UNION { SeqsOfLen(Bytes, n) : n \in 0..MaxLen } : IsValidStr(s) }

\* ------------------------------------------------------ slicing (&s[a..b])
\* str::is_char_boundary: offset 0, offset len, or a byte that does not
\* continue a character.
IsCharBoundary(s, idx) ==
    \/ idx = 0
    \/ idx = Len(s)
    \/ (idx > 0 /\ idx < Len(s) /\ ~IsContinuation(s[idx + 1]))

\* &string[a..b] panics unless a <= b <= len and both are char boundaries.
SliceOK(s, a, b) ==
    /\ 0 <= a /\ a <= b /\ b <= Len(s)
    /\ IsCharBoundary(s, a)
    /\ IsCharBoundary(s, b)

\* The content of the view a..b of s.
Content(s, a, b) == SubSeq(s, a + 1, b)

\* ------------------------------------------------- pieces of first_word
IsSpaceAnyWhitespace(item) == item = SP \/ item \in OtherWhitespace
\* item == b' '
IsSpace(item) == item = SP

FirstBranchNoFlag(found, item) == ~IsSpace(item)
\* line 236: !char_found && !(item == b' ')
FirstBranch(found, item) == ~found /\ ~IsSpace(item)

SecondBranchNoSpaceTest(found, item) == found
\* line 242: item == b' ' && char_found
SecondBranch(found, item) == IsSpace(item) /\ found

FirstCharAtNext(idx) == idx + 1
\* line 238: first_char = i
FirstCharAt(idx) == idx

EarlyLoZero(fc) == 0
\* line 243: lower bound of &string[first_char..i]
EarlyLo(fc) == fc

\* line 243: upper bound of &string[first_char..i]
EarlyHi(idx) == idx

FallThroughHiPastEnd(n) == n + 1
FallThroughHiShort(n) == IF n > 0 THEN n - 1 ELSE 0
\* line 247: upper bound of &string[..]
FallThroughHi(n) == n

\* line 247: lower bound of &string[..]
FallThroughLo == 0

\* ------------------------------------------------------------------ state
VARIABLES
    string,      \* the argument of the current call
    call,        \* 1 for the first call, 2 for the call on its result
    pc,          \* "call", "loop", "done" or "panic"
    i,           \* index the enumerate() iterator yields next
    char_found,  \* line 231
    first_char,  \* line 232
    path,        \* which return was taken: "none", "early" or "end"
    lo,          \* lower offset of the slice the return evaluates
    hi,          \* upper offset of the slice the return evaluates
    prev         \* content returned by the previous call

vars == <<string, call, pc, i, char_found, first_char, path, lo, hi, prev>>

Init ==
    /\ string \in Texts
    /\ call = 1
    /\ pc = "call"
    /\ i = 0
    /\ char_found = FALSE
    /\ first_char = 0
    /\ path = "none"
    /\ lo = 0
    /\ hi = 0
    /\ prev = <<>>

\* lines 226-232: entry, locals initialised, iterator at the first byte
Enter ==
    /\ pc = "call"
    /\ pc' = "loop"
    /\ i' = 0
    /\ char_found' = FALSE
    /\ first_char' = 0
    /\ path' = "none"
    /\ lo' = 0
    /\ hi' = 0
    /\ UNCHANGED <<string, call, prev>>

\* lines 234-239: first byte that is not a space
FindFirstChar ==
    /\ pc = "loop"
    /\ i < Len(string)
    /\ FirstBranch(char_found, string[i + 1])
    /\ char_found' = TRUE
    /\ first_char' = FirstCharAt(i)
    /\ i' = i + 1
    /\ UNCHANGED <<string, call, pc, path, lo, hi, prev>>

\* lines 242-244: first space after the word, return &string[first_char..i]
EarlyReturn ==
    /\ pc = "loop"
    /\ i < Len(string)
    /\ ~FirstBranch(char_found, string[i + 1])
    /\ SecondBranch(char_found, string[i + 1])
    /\ lo' = EarlyLo(first_char)
    /\ hi' = EarlyHi(i)
    /\ path' = "early"
    /\ pc' = IF SliceOK(string, EarlyLo(first_char), EarlyHi(i))
             THEN "done" ELSE "panic"
    /\ UNCHANGED <<string, call, i, char_found, first_char, prev>>

\* lines 234-245: neither branch taken, next iteration
Skip ==
    /\ pc = "loop"
    /\ i < Len(string)
    /\ ~FirstBranch(char_found, string[i + 1])
    /\ ~SecondBranch(char_found, string[i + 1])
    /\ i' = i + 1
    /\ UNCHANGED <<string, call, pc, char_found, first_char, path, lo, hi, prev>>

\* lines 245-247: iterator exhausted, return &string[..]
FallThrough ==
    /\ pc = "loop"
    /\ i >= Len(string)
    /\ lo' = FallThroughLo
    /\ hi' = FallThroughHi(Len(string))
    /\ path' = "end"
    /\ pc' = IF SliceOK(string, FallThroughLo, FallThroughHi(Len(string)))
             THEN "done" ELSE "panic"
    /\ UNCHANGED <<string, call, i, char_found, first_char, prev>>

\* The caller passes the returned &str to first_word again (the function
\* takes and returns &str, lines 154-158 call it on slices).
CallAgain ==
    /\ pc = "done"
    /\ call < MaxCalls
    /\ prev' = Content(string, lo, hi)
    /\ string' = Content(string, lo, hi)
    /\ call' = call + 1
    /\ pc' = "call"
    /\ UNCHANGED <<i, char_found, first_char, path, lo, hi>>

Next ==
    \/ Enter
    \/ FindFirstChar
    \/ EarlyReturn
    \/ Skip
    \/ FallThrough
    \/ CallAgain

Spec == Init /\ [][Next]_vars

\* The function is synchronous straight-line code: a started call keeps
\* executing until it returns.
FairSpec == Spec /\ WF_vars(Next)

\* ---------------------------------------------- reference notions of 4.1
\* 0-based indices of the bytes of s that are not the space byte.
NonSpaceIdx(s) == { k \in 0..(Len(s) - 1) : s[k + 1] # 32 }

\* 0-based indices >= from of the bytes of s that are the space byte.
SpaceIdxFrom(s, from) == { k \in from..(Len(s) - 1) : s[k + 1] = 32 }

Min(S) == CHOOSE m \in S : \A x \in S : m <= x

\* Some non-space byte is later followed by a space byte.
HasTerminatedWord(s) ==
    NonSpaceIdx(s) # {} /\ SpaceIdxFrom(s, Min(NonSpaceIdx(s))) # {}

\* start_of_word: first non-space byte, 0 when there is none.
StartOfWord(s) == IF NonSpaceIdx(s) = {} THEN 0 ELSE Min(NonSpaceIdx(s))

\* end_of_word: first space byte after start_of_word.
EndOfWord(s) == Min(SpaceIdxFrom(s, StartOfWord(s)))

HasSpace(s) == \E k \in 1..Len(s) : s[k] = 32


\* ----------------------------------------------------------------- claims

\* C1: when some non-space byte is later followed by a space byte, the
\* call returns exactly the view from the first non-space byte up to (not
\* including) the first space byte after it, by the return inside the loop.
EarlyReturnIsFirstWord ==
    (pc = "done" /\ HasTerminatedWord(string)) =>
        /\ path = "early"
        /\ lo = StartOfWord(string)
        /\ hi = EndOfWord(string)

EarlyReturnIsFirstWordWitness ==
    /\ pc = "done"
    /\ call = 1
    /\ HasTerminatedWord(string)
    /\ lo > 0
    /\ hi > lo + 1
    /\ hi < Len(string)

\* C2 (as stated): when no space byte follows the first non-space byte, the
\* call returns the view from start_of_word (first non-space byte, or 0 if
\* there is none) to the end of the text, so without the leading spaces.
NoTerminatorReturnsFromStartOfWord ==
    (pc = "done" /\ ~HasTerminatedWord(string)) =>
        /\ lo = StartOfWord(string)
        /\ hi = Len(string)

\* C3 (as stated): for a non-empty text made only of space bytes the
\* returned view is empty.
AllSpacesReturnsEmpty ==
    (pc = "done" /\ Len(string) > 0 /\ NonSpaceIdx(string) = {}) =>
        hi - lo = 0

\* C4 (as stated): the returned view never contains a space byte.
ResultHasNoSpace ==
    pc = "done" => ~HasSpace(Content(string, lo, hi))

\* C5: on both return paths the slice taken is a range lo..hi of the text
\* with 0 <= lo <= hi <= length; for the empty text it is the empty view.
ResultWithinBounds ==
    (path # "none" /\ pc \in {"done", "panic"}) =>
        /\ 0 <= lo
        /\ lo <= hi
        /\ hi <= Len(string)
        /\ (Len(string) = 0 => (lo = 0 /\ hi = 0))

ResultWithinBoundsWitness ==
    /\ pc = "done"
    /\ path = "early"
    /\ 0 < lo
    /\ lo < hi
    /\ hi < Len(string)

\* C6: the call is total: it never panics on a slice bound (out of range,
\* lower above upper, or inside a multi-byte character), the scan moves
\* forward one byte position per iteration and never past the end, and
\* every started scan returns.
Totality ==
    /\ [](pc # "panic" /\ (pc \in {"loop", "done"} => i <= Len(string)))
    /\ [][(pc = "loop" /\ pc' = "loop") => i' = i + 1]_vars
    /\ [][(pc = "loop" /\ pc' # "loop") => (pc' = "done" /\ i' = i)]_vars
    /\ (pc = "loop" ~> pc = "done")

\* A call on a text with a multi-byte character before the delimiting
\* space has returned.
TotalityWitness ==
    /\ pc = "done"
    /\ path = "early"
    /\ \E k \in 1..hi : IsLead(string[k])

\* C7: only the byte 0x20 is skipped as leading whitespace or ends the
\* word; a tab or newline starts the word and never ends it.
OnlySpaceDelimits ==
    /\ (pc \in {"loop", "done"} /\ char_found) =>
           /\ string[first_char + 1] # 32
           /\ \A k \in 1..first_char : string[k] = 32
    /\ (pc = "done" /\ path = "early") =>
           /\ string[hi + 1] = 32
           /\ \A k \in (lo + 1)..hi : string[k] # 32
    /\ (pc = "done" /\ ~HasSpace(string)
          /\ \E k \in 1..Len(string) : string[k] \in OtherWhitespace) =>
           (lo = 0 /\ hi = Len(string))

\* A word that starts with a tab or newline and contains another one was
\* returned by the early return.
OnlySpaceDelimitsWitness ==
    /\ pc = "done"
    /\ path = "early"
    /\ lo > 0
    /\ string[lo + 1] \in OtherWhitespace
    /\ hi > lo + 1
    /\ string[hi] \in OtherWhitespace

\* C8: the call on the result of a call returns the same content.
Idempotent ==
    (call = 2 /\ pc = "done") => Content(string, lo, hi) = prev

IdempotentWitness ==
    /\ call = 2
    /\ pc = "done"
    /\ Len(prev) >= 2
    /\ Content(string, lo, hi) = prev

\* C9: for a text with no space byte at all the result is the whole text.
NoSpaceReturnsWhole ==
    (pc = "done" /\ ~HasSpace(string)) => (lo = 0 /\ hi = Len(string))

NoSpaceReturnsWholeWitness ==
    /\ pc = "done"
    /\ call = 1
    /\ ~HasSpace(string)
    /\ Len(string) >= 3
    /\ path = "end"

\* C10: loop invariant of the scan.  While char_found is false every byte
\* visited is a space and first_char is 0; once char_found is true it stays
\* true and first_char stays at the index of the first non-space byte (the
\* number of leading spaces); the early return happens only with char_found
\* true and first_char below the index of the space, so its view is
\* non-empty.
ScanInvariant ==
    /\ [](pc = "loop" /\ ~char_found =>
             /\ first_char = 0
             /\ \A k \in 1..i : string[k] = 32)
    /\ [](pc \in {"loop", "done"} /\ char_found =>
             /\ NonSpaceIdx(string) # {}
             /\ first_char = Min(NonSpaceIdx(string))
             /\ first_char < i)
    /\ [][(pc = "loop" /\ char_found) =>
             (char_found' /\ first_char' = first_char)]_vars
    /\ [](path = "early" /\ pc \in {"done", "panic"} =>
             /\ char_found
             /\ first_char < i
             /\ lo = first_char
             /\ hi = i
             /\ lo < hi)

\* The scan is past the first character of a word that follows leading
\* spaces and is still running.
ScanInvariantWitness ==
    /\ pc = "loop"
    /\ char_found
    /\ first_char > 0
    /\ i > first_char + 1

====
